---- MODULE Spec2Model ----
(***************************************************************************)
(* Order and payment service (src/order-service/index.js).                 *)
(*                                                                         *)
(* The relational store is modelled by its committed tables.  A request    *)
(* handler is a process: every `await client.query(...)` is one atomic     *)
(* step in which the statement executes in the store and the synchronous   *)
(* code that follows it runs up to the next await.  Statements of an open  *)
(* transaction (BEGIN ... COMMIT) write into the request's private write   *)
(* set and become visible at COMMIT (PostgreSQL's default isolation level, *)
(* read committed: every statement reads what is committed when it runs).  *)
(* Statements outside BEGIN/COMMIT are autocommitted.                      *)
(*                                                                         *)
(* Money is kept in minor units (cents): DECIMAL(10,2) columns hold an     *)
(* integer number of cents.                                                *)
(***************************************************************************)
EXTENDS Integers, Sequences, FiniteSets, TLC

\* ---------------------------------------------------------------- bounds
\* The id sequences and the gateway's log are unbounded in the program.  A
\* specification bounds them by the workload it admits: `budget` holds the last
\* value each sequence may hand out and the number of charge requests the gateway
\* may receive, and a request is admitted only while there is room for it.
NumReqs == 2        \* request handlers that may be in flight together
\* Spec: every operation
MaxCartId == 1
MaxItemId == 2
MaxOrderId == 1
MaxCharges == 1
\* SpecPay: AddItem, PlaceOrder, ProcessPayment
PayCartId == 1
PayItemId == 1
PayOrderId == 1
PayCharges == 3
\* SpecQuiet: AddItem, RemoveItem, PlaceOrder
QuietCartId == 1
QuietItemId == 2
QuietOrderId == 1
\* SpecOrders: every operation, two orders
OrdersCartId == 1
OrdersItemId == 1
OrdersOrderId == 2
OrdersCharges == 1
\* SpecInputs: AddItem
InputsCartId == 2
InputsItemId == 2
\* SpecCart: AddItem, RemoveItem, GetCart
CartCartId == 2
CartItemId == 2

\* SpecPool: a pool of one client; ids of shopping_carts, cart_items, orders;
\* charge requests
PoolSize == 1
PoolCartId == 2
PoolItemId == 2
PoolOrderId == 1
PoolCharges == 2
\* SpecAll: every operation; ids of shopping_carts, cart_items, orders; charge
\* requests
AllCartId == 2
AllItemId == 2
AllOrderId == 1
AllCharges == 1
\* SpecAmount: ids of shopping_carts, cart_items, orders; charge requests
AmountCartId == 1
AmountItemId == 1
AmountOrderId == 1
AmountCharges == 2
\* SpecRead: RemoveItem, PlaceOrder, GetCart, ListOrders, no credentials
ReadOrderId == 2
ReadClock == 3
\* SpecFrame: every operation and the catalog, after a first order
FrameCartId == 2
FrameItemId == 2
FrameOrderId == 2
FrameCharges == 1

Reqs == 1..NumReqs
Users == {"u1", "u2"}
Methods == {"card"}
Addresses == {"addr"}

\* request bodies of POST /cart/add: product_id, quantity, price (cents)
AddInputs ==
  { [product_id |-> "pA", quantity |-> 2, price |-> 2000],
    [product_id |-> "pB", quantity |-> 1, price |-> 1500] }

\* request bodies that the operation's contract excludes: a quantity that is not
\* positive, a negative price, a quantity that is missing
InvalidInputs ==
  { [product_id |-> "pA", quantity |-> 0, price |-> 2000],
    [product_id |-> "pA", quantity |-> -1, price |-> 2000],
    [product_id |-> "pB", quantity |-> 1, price |-> -1500],
    [product_id |-> "pB", price |-> 1500] }

\* the columns of cart_items that are NOT NULL and come from the request body
CartItemColumns == {"product_id", "quantity", "price"}

\* the catalog: the products of the request bodies and the prices a seller sets
ProductIds == { a.product_id : a \in AddInputs }
Prices == { a.price : a \in AddInputs }

VARIABLES
  carts,       \* shopping_carts rows (committed)
  cartItems,   \* cart_items rows (committed)
  orders,      \* orders rows (committed)
  orderItems,  \* order_items rows (committed)
  payments,    \* payments rows (committed)
  cartSeq,     \* shopping_carts_id_seq: next value
  itemSeq,     \* cart_items_id_seq: next value
  orderSeq,    \* orders_id_seq: next value
  orderItemSeq,\* order_items_id_seq: next value
  pool,        \* the clients of the connection pool each request has checked out
  charges,     \* the gateway's log of charge requests, in arrival order
  budget,      \* the workload the specification admits (never changes)
  products,    \* the catalog of the product service: the price of each product
  reqs         \* the request handlers: position and local variables

vars == <<carts, cartItems, orders, orderItems, payments,
          cartSeq, itemSeq, orderSeq, orderItemSeq, pool, charges, budget,
          products, reqs>>

\* the id sequences, and what no handler of the order service writes
seqs == <<cartSeq, itemSeq, orderSeq, orderItemSeq, budget, products>>

store == <<carts, cartItems, orders, orderItems, payments>>

\* ------------------------------------------------------------ helpers
NoResp == [status |-> 0, error |-> "", rows |-> <<>>]
NoRow == [id |-> 0]
NoArg == [none |-> TRUE]

Idle ==
  [ op |-> "none", user |-> "", pc |-> "idle", arg |-> NoArg,
    cart |-> 0,              \* AddItem: cart.rows[0].id
    txCarts |-> {},          \* uncommitted shopping_carts inserts
    txItems |-> {},          \* uncommitted cart_items inserts
    loaded |-> <<>>,         \* PlaceOrder: cartItems.rows
    total |-> 0,             \* PlaceOrder: totalAmount
    order |-> NoRow,         \* order.rows[0]
    txOrders |-> {},         \* uncommitted orders inserts
    txOrderItems |-> {},     \* uncommitted order_items inserts
    idx |-> 0,               \* PlaceOrder: position of the for loop
    targets |-> {},          \* a DELETE's snapshot, while it waits for a row lock
    txDeleted |-> {},        \* ids of cart_items rows deleted, uncommitted
    charge |-> 0,            \* ProcessPayment: index of its request in charges
    intent |-> 0,            \* ProcessPayment: paymentIntent.id
    tx |-> FALSE,            \* a transaction of the request is open in the store
    began |-> 0,             \* CURRENT_TIMESTAMP of the transaction: when it began
    error |-> "",            \* the error caught
    resp |-> NoResp ]

RECURSIVE SetToSeq(_)
\* rows in ascending id order (the order a heap scan returns them in)
SetToSeq(S) ==
  IF S = {} THEN <<>>
  ELSE LET m == CHOOSE x \in S : \A y \in S : x.id <= y.id
       IN <<m>> \o SetToSeq(S \ {m})

SeqToSet(s) == { s[i] : i \in 1..Len(s) }

RECURSIVE Reduce(_, _)
\* cartItems.rows.reduce((sum, item) => sum + item.price * item.quantity, 0)
Reduce(rows, sum) ==
  IF rows = <<>> THEN sum
  ELSE Reduce(Tail(rows), sum + Head(rows).price * Head(rows).quantity)

RECURSIVE ReducePrice(_, _)
ReducePrice(rows, sum) ==
  IF rows = <<>> THEN sum ELSE ReducePrice(Tail(rows), sum + Head(rows).price)

\* mutant: the total forgets the quantities
TotalAmountPriceOnly(rows) == ReducePrice(rows, 0)

TotalAmount(rows) == Reduce(rows, 0)

\* SELECT ci.* FROM cart_items ci JOIN shopping_carts sc ON ci.cart_id = sc.id
\* WHERE sc.user_id = u, on the committed tables
CartItemsOf(u) ==
  { ci \in cartItems : \E sc \in carts : sc.id = ci.cart_id /\ sc.user_id = u }

\* SELECT * FROM shopping_carts WHERE user_id = u, as the transaction of r sees it
CartsOf(r, u) == { sc \in carts \cup reqs[r].txCarts : sc.user_id = u }

InFlight(r) == reqs[r].pc \notin {"idle", "done"}
HoldsTx(r) == reqs[r].op \in {"AddItem", "PlaceOrder"} /\ InFlight(r)

\* a row lock taken by an uncommitted DELETE of another request
LockedByOther(r, ids) ==
  \E q \in Reqs \ {r} : HoldsTx(q) /\ reqs[q].txDeleted \cap ids # {}

Set(r, rec) == [reqs EXCEPT ![r] = rec]

\* A handler that has responded is observed (pc = "done") and retired before
\* anything else happens: its response is part of the step that sent it.
Observed == \E q \in Reqs : reqs[q].pc = "done"

\* handler r is at position p
At(r, p) == reqs[r].pc = p /\ ~Observed

\* res.status(s).send(...) on the way out of try; finally { client.release() }
Respond(r, rsp) ==
  /\ reqs' = Set(r, [reqs[r] EXCEPT !.pc = "done", !.error = rsp.error,
                                    !.resp = rsp, !.tx = FALSE])
  /\ pool' = [pool EXCEPT ![r] = @ - 1]

\* catch (error) { res.status(s).send(error) } finally { client.release() }
Caught(r, s, e) == Respond(r, [status |-> s, error |-> e, rows |-> <<>>])

\* catch (error) { await client.query('ROLLBACK'); ... }: the ROLLBACK is issued.
\* Nothing the transaction wrote can become visible any more; the row locks of
\* its DELETE are held until the ROLLBACK has run.
Throw(r, e) ==
  /\ reqs' = Set(r, [Idle EXCEPT !.op = reqs[r].op, !.user = reqs[r].user,
                                 !.arg = reqs[r].arg, !.pc = "rollback",
                                 !.txDeleted = reqs[r].txDeleted,
                                 !.tx = reqs[r].tx, !.error = e])
  /\ UNCHANGED pool

\* ------------------------------------------------------------ Init
InitWith(b) ==
  /\ budget = b
  /\ carts = {} /\ cartItems = {} /\ orders = {} /\ orderItems = {}
  /\ payments = {}
  /\ cartSeq = 1 /\ itemSeq = 1 /\ orderSeq = 1 /\ orderItemSeq = 1
  /\ pool = [r \in Reqs |-> 0]
  /\ charges = <<>>
  /\ products = [p \in ProductIds |->
                   (CHOOSE a \in AddInputs : a.product_id = p).price]
  /\ reqs = [r \in Reqs |-> Idle]

Init == InitWith([carts |-> MaxCartId, items |-> MaxItemId,
                  orders |-> MaxOrderId, charges |-> MaxCharges,
                  updates |-> FALSE, inputs |-> AddInputs,
   pool |-> NumReqs, clock |-> 0])

RECURSIVE SumOver(_, _)
SumOver(f, S) ==
  IF S = {} THEN 0
  ELSE LET x == CHOOSE y \in S : TRUE IN f[x] + SumOver(f, S \ {x})

\* the clients that are checked out of the pool
CheckedOut == SumOver(pool, Reqs)

\* const client = await pool.connect(): waits while the pool has no idle client
\* and may not create one
Connect(r) ==
  /\ At(r, "connect")
  /\ CheckedOut < budget.pool
  /\ pool' = [pool EXCEPT ![r] = @ + 1]
  /\ reqs' = Set(r, [reqs[r] EXCEPT !.pc =
        CASE reqs[r].op = "AddItem" -> "begin"
          [] reqs[r].op = "PlaceOrder" -> "begin"
          [] reqs[r].op = "RemoveItem" -> "delete"
          [] reqs[r].op = "GetCart" -> "getCart"
          [] reqs[r].op = "ListOrders" -> "listOrders"
          [] OTHER -> "selectOrder"])
  /\ UNCHANGED <<store, seqs, charges>>

\* const client = await pool.connect() rejects (the store cannot be reached): the
\* call stands before the try block, so the async handler ends by its exception;
\* no client was taken, no catch block runs and nothing is sent
ConnectFails(r) ==
  /\ At(r, "connect")
  /\ reqs' = Set(r, [reqs[r] EXCEPT !.pc = "done", !.error = "StoreError"])
  /\ UNCHANGED <<store, seqs, pool, charges>>

\* Time is kept as the order of the events that carry a timestamp: the starts
\* of the PlaceOrder transactions (orders.created_at is DEFAULT CURRENT_TIMESTAMP,
\* the time at which the inserting transaction began).  A transaction that
\* begins now begins later than every one that has begun.  The clock is bounded
\* by the workload: budget.clock is the last time a transaction may begin at,
\* and 0 where the specification keeps no time (every timestamp is 0).
Latest ==
  LET times == { o.created_at : o \in orders } \cup { reqs[q].began : q \in Reqs }
  IN CHOOSE t \in times : \A x \in times : x <= t

\* await client.query('BEGIN')
Begin(r) ==
  /\ At(r, "begin")
  /\ \/ /\ reqs' = Set(r, [reqs[r] EXCEPT !.tx = TRUE,
              !.began = IF reqs[r].op = "PlaceOrder" /\ budget.clock > 0
                        THEN Latest + 1 ELSE 0,
              !.pc = IF reqs[r].op = "AddItem" THEN "selectCart"
                     ELSE "selectItems"])
        /\ UNCHANGED pool
     \/ Throw(r, "StoreError")
  /\ UNCHANGED <<store, seqs, charges>>

\* mutant: a ROLLBACK that fails leaves the handler before the client is released
RollbackLeaks(r) ==
  /\ At(r, "rollback")
  /\ \/ Caught(r, 400, reqs[r].error)
     \/ /\ reqs' = Set(r, [reqs[r] EXCEPT !.pc = "done", !.txDeleted = {},
                                          !.tx = FALSE])
        /\ UNCHANGED pool
  /\ UNCHANGED <<store, seqs, charges>>

\* catch (error) { await client.query('ROLLBACK'); res.status(400).send(error) }
\* finally { client.release() }.  When the ROLLBACK itself fails the catch block
\* is left by its exception: nothing is sent, the client is released, and the
\* store ends the transaction of the lost session.
Rollback(r) ==
  /\ At(r, "rollback")
  /\ \/ Caught(r, 400, reqs[r].error)
     \/ /\ reqs' = Set(r, [reqs[r] EXCEPT !.pc = "done", !.txDeleted = {},
                                          !.tx = FALSE])
        /\ pool' = [pool EXCEPT ![r] = @ - 1]
  /\ UNCHANGED <<store, seqs, charges>>

\* the response has been sent and the client released: the handler is over
Retire(r) ==
  /\ reqs[r].pc = "done"
  /\ reqs' = Set(r, Idle)
  /\ UNCHANGED <<store, seqs, pool, charges>>

Free(r) == At(r, "idle")

\* ------------------------------------------------------------ POST /cart/add
\* the handlers in flight that have still to take a cart_items id, a
\* shopping_carts id
ItemIdsAwaited ==
  { q \in Reqs : reqs[q].op = "AddItem" /\ reqs[q].pc \in
       {"connect", "begin", "selectCart", "insertCart", "insertItem"} }

CartIdsAwaited ==
  { q \in Reqs : /\ reqs[q].op = "AddItem"
                 /\ \/ reqs[q].pc = "insertCart"
                    \/ /\ reqs[q].pc \in {"connect", "begin", "selectCart"}
                       /\ ~\E sc \in carts : sc.user_id = reqs[q].user }

AddItemStart(r) ==
  /\ Free(r)
  /\ \E u \in Users, a \in budget.inputs :
       reqs' = Set(r, [Idle EXCEPT !.op = "AddItem", !.user = u, !.arg = a,
                                   !.pc = "connect"])
  \* the id sequences are bounded: leave room for the ids this call may take
  /\ itemSeq + Cardinality(ItemIdsAwaited) <= budget.items
  /\ \/ \E sc \in carts : sc.user_id = reqs'[r].user
     \/ cartSeq + Cardinality(CartIdsAwaited) <= budget.carts
  /\ UNCHANGED <<store, seqs, pool, charges>>

\* SELECT * FROM shopping_carts WHERE user_id = $1
AddItemSelectCart(r) ==
  /\ At(r, "selectCart")
  /\ \/ /\ CartsOf(r, reqs[r].user) = {}
        /\ reqs' = Set(r, [reqs[r] EXCEPT !.pc = "insertCart"])
        /\ UNCHANGED pool
     \/ /\ \E sc \in CartsOf(r, reqs[r].user) :
             reqs' = Set(r, [reqs[r] EXCEPT !.pc = "insertItem", !.cart = sc.id])
        /\ UNCHANGED pool
     \/ Throw(r, "StoreError")
  /\ UNCHANGED <<store, seqs, charges>>

\* mutant: the cart is inserted outside the transaction (pool.query)
AddItemInsertCartOnPool(r) ==
  /\ At(r, "insertCart")
  /\ \/ /\ reqs' = Set(r, [reqs[r] EXCEPT !.pc = "insertItem", !.cart = cartSeq])
        /\ carts' = carts \cup {[id |-> cartSeq, user_id |-> reqs[r].user]}
        /\ cartSeq' = cartSeq + 1
        /\ UNCHANGED pool
     \/ Throw(r, "StoreError") /\ UNCHANGED <<cartSeq, carts>>
  /\ UNCHANGED <<cartItems, orders, orderItems, payments, itemSeq, orderSeq,
                 orderItemSeq, budget, products, charges>>

\* INSERT INTO shopping_carts (user_id) VALUES ($1) RETURNING *
AddItemInsertCart(r) ==
  /\ At(r, "insertCart")
  /\ \/ /\ reqs' = Set(r, [reqs[r] EXCEPT !.pc = "insertItem", !.cart = cartSeq,
              !.txCarts = {[id |-> cartSeq, user_id |-> reqs[r].user]}])
        /\ cartSeq' = cartSeq + 1
        /\ UNCHANGED pool
     \/ Throw(r, "StoreError") /\ UNCHANGED cartSeq
  /\ UNCHANGED <<store, itemSeq, orderSeq, orderItemSeq, budget, products, charges>>

\* INSERT INTO cart_items (cart_id, product_id, quantity, price) VALUES (...):
\* a missing field of the body is undefined, the column gets NULL and the
\* statement fails on the NOT NULL constraint; any number is stored as it is
AddItemInsertItem(r) ==
  /\ At(r, "insertItem")
  /\ \/ /\ CartItemColumns \subseteq DOMAIN reqs[r].arg
        /\ reqs' = Set(r, [reqs[r] EXCEPT !.pc = "commit",
              !.txItems = {[id |-> itemSeq, cart_id |-> reqs[r].cart,
                            product_id |-> reqs[r].arg.product_id,
                            quantity |-> reqs[r].arg.quantity,
                            price |-> reqs[r].arg.price]}])
        /\ itemSeq' = itemSeq + 1
        /\ UNCHANGED pool
     \/ Throw(r, "StoreError") /\ UNCHANGED itemSeq
  /\ UNCHANGED <<store, cartSeq, orderSeq, orderItemSeq, budget, products, charges>>

\* mutant: an item of a product the cart has a line for is merged into the line
AddItemCommitMerged(r) ==
  /\ At(r, "commit") /\ reqs[r].op = "AddItem"
  /\ \/ /\ carts' = carts \cup reqs[r].txCarts
        /\ LET same == { ci \in cartItems :
                           /\ ci.cart_id = reqs[r].cart
                           /\ ci.product_id = reqs[r].arg.product_id }
           IN cartItems' =
                IF same = {} THEN cartItems \cup reqs[r].txItems
                ELSE { IF ci \in same
                       THEN [ci EXCEPT !.quantity = @ + reqs[r].arg.quantity]
                       ELSE ci : ci \in cartItems }
        /\ Respond(r, [status |-> 201, error |-> "", rows |-> <<>>])
     \/ Throw(r, "StoreError") /\ UNCHANGED <<carts, cartItems>>
  /\ UNCHANGED <<orders, orderItems, payments, seqs, charges>>

\* COMMIT; res.status(201).send({ message: 'Item added to cart' })
AddItemCommit(r) ==
  /\ At(r, "commit") /\ reqs[r].op = "AddItem"
  /\ \/ /\ carts' = carts \cup reqs[r].txCarts
        /\ cartItems' = cartItems \cup reqs[r].txItems
        /\ Respond(r, [status |-> 201, error |-> "", rows |-> <<>>])
     \/ Throw(r, "StoreError") /\ UNCHANGED <<carts, cartItems>>
  /\ UNCHANGED <<orders, orderItems, payments, seqs, charges>>

AddItem(r) ==
  \/ AddItemStart(r) \/ AddItemSelectCart(r) \/ AddItemInsertCart(r)
  \/ AddItemInsertItem(r) \/ AddItemCommit(r)

\* ------------------------------------------------------------ POST /order/place
PlaceOrderStart(r) ==
  /\ Free(r)
  /\ \E u \in Users, a \in Addresses :
       reqs' = Set(r, [Idle EXCEPT !.op = "PlaceOrder", !.user = u,
                                   !.arg = [shipping_address |-> a],
                                   !.pc = "connect"])
  \* the id sequence is bounded: leave room for the id this call may take
  /\ orderSeq + Cardinality({q \in Reqs : reqs[q].op = "PlaceOrder" /\ reqs[q].pc \in
         {"connect", "begin", "selectItems", "insertOrder"}}) <= budget.orders
  \* the clock is bounded: leave room for the time this call may begin at
  /\ \/ budget.clock = 0
     \/ Latest + Cardinality({q \in Reqs : reqs[q].op = "PlaceOrder" /\ reqs[q].pc \in
            {"connect", "begin"}}) < budget.clock
  /\ UNCHANGED <<store, seqs, pool, charges>>

\* mutant: the check for an empty cart is missing
PlaceOrderSelectItemsNoCheck(r) ==
  /\ At(r, "selectItems")
  /\ \/ /\ LET rows == SetToSeq(CartItemsOf(reqs[r].user))
           IN reqs' = Set(r, [reqs[r] EXCEPT !.pc = "insertOrder", !.loaded = rows,
                                              !.total = TotalAmount(rows)])
        /\ UNCHANGED pool
     \/ Throw(r, "StoreError")
  /\ UNCHANGED <<store, seqs, charges>>

\* SELECT ci.* FROM cart_items ci JOIN shopping_carts sc ... WHERE sc.user_id = $1;
\* if (cartItems.rows.length === 0) throw new Error('Cart is empty'); totalAmount
PlaceOrderSelectItems(r) ==
  /\ At(r, "selectItems")
  /\ \/ /\ CartItemsOf(reqs[r].user) = {}
        /\ Throw(r, "Cart is empty")
     \/ /\ CartItemsOf(reqs[r].user) # {}
        /\ LET rows == SetToSeq(CartItemsOf(reqs[r].user))
           IN reqs' = Set(r, [reqs[r] EXCEPT !.pc = "insertOrder", !.loaded = rows,
                                              !.total = TotalAmount(rows)])
        /\ UNCHANGED pool
     \/ Throw(r, "StoreError")
  /\ UNCHANGED <<store, seqs, charges>>

\* mutant: the order is inserted outside the transaction (autocommitted)
PlaceOrderInsertOrderOnPool(r) ==
  /\ At(r, "insertOrder")
  /\ \/ /\ LET row == [id |-> orderSeq, user_id |-> reqs[r].user,
                       status |-> "pending", total_amount |-> reqs[r].total,
                       shipping_address |-> reqs[r].arg.shipping_address,
                       created_at |-> reqs[r].began]
           IN /\ reqs' = Set(r, [reqs[r] EXCEPT !.pc = "insertOrderItem", !.idx = 1,
                                                 !.order = row])
              /\ orders' = orders \cup {row}
        /\ orderSeq' = orderSeq + 1
        /\ UNCHANGED pool
     \/ Throw(r, "StoreError") /\ UNCHANGED <<orderSeq, orders>>
  /\ UNCHANGED <<carts, cartItems, orderItems, payments, cartSeq, itemSeq,
                 orderItemSeq, budget, products, charges>>

\* INSERT INTO orders (user_id, status, total_amount, shipping_address)
\* VALUES ($1, 'pending', totalAmount, shipping_address) RETURNING *;
\* created_at takes its default
PlaceOrderInsertOrder(r) ==
  /\ At(r, "insertOrder")
  /\ \/ /\ LET row == [id |-> orderSeq, user_id |-> reqs[r].user,
                       status |-> "pending", total_amount |-> reqs[r].total,
                       shipping_address |-> reqs[r].arg.shipping_address,
                       created_at |-> reqs[r].began]
           IN reqs' = Set(r, [reqs[r] EXCEPT !.idx = 1,
                  !.order = row, !.txOrders = {row},
                  !.pc = IF reqs[r].loaded = <<>> THEN "deleteCart"
                         ELSE "insertOrderItem"])
        /\ orderSeq' = orderSeq + 1
        /\ UNCHANGED pool
     \/ Throw(r, "StoreError") /\ UNCHANGED orderSeq
  /\ UNCHANGED <<store, cartSeq, itemSeq, orderItemSeq, budget, products, charges>>

\* mutant: the order item is written without the quantity of the cart item
PlaceOrderInsertOrderItemNoQuantity(r) ==
  /\ At(r, "insertOrderItem")
  /\ \/ /\ LET item == reqs[r].loaded[reqs[r].idx]
               row == [id |-> orderItemSeq, order_id |-> reqs[r].order.id,
                       product_id |-> item.product_id,
                       quantity |-> 1, price |-> item.price]
           IN reqs' = Set(r, [reqs[r] EXCEPT
                  !.txOrderItems = @ \cup {row}, !.idx = @ + 1,
                  !.pc = IF reqs[r].idx = Len(reqs[r].loaded)
                         THEN "deleteCart" ELSE "insertOrderItem"])
        /\ orderItemSeq' = orderItemSeq + 1
        /\ UNCHANGED pool
     \/ Throw(r, "StoreError") /\ UNCHANGED orderItemSeq
  /\ UNCHANGED <<store, cartSeq, itemSeq, orderSeq, budget, products, charges>>

\* mutant: a cart line of a product the order has a line for is merged into it
PlaceOrderInsertOrderItemMerged(r) ==
  /\ At(r, "insertOrderItem")
  /\ \/ /\ LET item == reqs[r].loaded[reqs[r].idx]
               same == { oi \in reqs[r].txOrderItems :
                           oi.product_id = item.product_id }
               row == [id |-> orderItemSeq, order_id |-> reqs[r].order.id,
                       product_id |-> item.product_id,
                       quantity |-> item.quantity, price |-> item.price]
           IN reqs' = Set(r, [reqs[r] EXCEPT
                  !.txOrderItems =
                     IF same = {} THEN @ \cup {row}
                     ELSE { IF oi \in same
                            THEN [oi EXCEPT !.quantity = @ + item.quantity]
                            ELSE oi : oi \in @ },
                  !.idx = @ + 1,
                  !.pc = IF reqs[r].idx = Len(reqs[r].loaded)
                         THEN "deleteCart" ELSE "insertOrderItem"])
        /\ orderItemSeq' = orderItemSeq + 1
        /\ UNCHANGED pool
     \/ Throw(r, "StoreError") /\ UNCHANGED orderItemSeq
  /\ UNCHANGED <<store, cartSeq, itemSeq, orderSeq, budget, products, charges>>

\* for (const item of cartItems.rows) INSERT INTO order_items (order_id,
\* product_id, quantity, price) VALUES (order.rows[0].id, item.product_id, ...)
PlaceOrderInsertOrderItem(r) ==
  /\ At(r, "insertOrderItem")
  /\ \/ /\ LET item == reqs[r].loaded[reqs[r].idx]
               row == [id |-> orderItemSeq, order_id |-> reqs[r].order.id,
                       product_id |-> item.product_id,
                       quantity |-> item.quantity, price |-> item.price]
           IN reqs' = Set(r, [reqs[r] EXCEPT
                  !.txOrderItems = @ \cup {row}, !.idx = @ + 1,
                  !.pc = IF reqs[r].idx = Len(reqs[r].loaded)
                         THEN "deleteCart" ELSE "insertOrderItem"])
        /\ orderItemSeq' = orderItemSeq + 1
        /\ UNCHANGED pool
     \/ Throw(r, "StoreError") /\ UNCHANGED orderItemSeq
  /\ UNCHANGED <<store, cartSeq, itemSeq, orderSeq, budget, products, charges>>

\* mutant: the DELETE has no WHERE clause
PlaceOrderDeleteCartOfAll(r) ==
  /\ At(r, "deleteCart")
  /\ \/ LET ids == { ci.id : ci \in cartItems }
        IN /\ reqs' = Set(r, IF LockedByOther(r, ids)
                THEN [reqs[r] EXCEPT !.pc = "deleteWait", !.targets = ids]
                ELSE [reqs[r] EXCEPT !.pc = "commit", !.txDeleted = ids])
           /\ UNCHANGED pool
     \/ Throw(r, "StoreError")
  /\ UNCHANGED <<store, seqs, charges>>

\* DELETE FROM cart_items WHERE cart_id IN (SELECT id FROM shopping_carts WHERE
\* user_id = $1): the statement's snapshot is what is committed when it starts;
\* it waits while another transaction holds a lock on one of those rows
PlaceOrderDeleteCart(r) ==
  /\ At(r, "deleteCart")
  /\ \/ LET ids == { ci.id : ci \in CartItemsOf(reqs[r].user) }
        IN /\ reqs' = Set(r, IF LockedByOther(r, ids)
                THEN [reqs[r] EXCEPT !.pc = "deleteWait", !.targets = ids]
                ELSE [reqs[r] EXCEPT !.pc = "commit", !.txDeleted = ids])
           /\ UNCHANGED pool
     \/ Throw(r, "StoreError")
  /\ UNCHANGED <<store, seqs, charges>>

\* the lock holder has ended: the DELETE goes on with the rows that still exist
PlaceOrderDeleteResume(r) ==
  /\ At(r, "deleteWait") /\ reqs[r].op = "PlaceOrder"
  /\ ~LockedByOther(r, reqs[r].targets)
  /\ reqs' = Set(r, [reqs[r] EXCEPT !.pc = "commit", !.targets = {},
        !.txDeleted = reqs[r].targets \cap { ci.id : ci \in cartItems }])
  /\ UNCHANGED <<store, seqs, pool, charges>>

\* COMMIT; res.status(201).send(order.rows[0])
PlaceOrderCommit(r) ==
  /\ At(r, "commit") /\ reqs[r].op = "PlaceOrder"
  /\ \/ /\ orders' = orders \cup reqs[r].txOrders
        /\ orderItems' = orderItems \cup reqs[r].txOrderItems
        /\ cartItems' = { ci \in cartItems : ci.id \notin reqs[r].txDeleted }
        /\ Respond(r, [status |-> 201, error |-> "", rows |-> <<reqs[r].order>>])
     \/ Throw(r, "StoreError") /\ UNCHANGED <<orders, orderItems, cartItems>>
  /\ UNCHANGED <<carts, payments, seqs, charges>>

PlaceOrder(r) ==
  \/ PlaceOrderStart(r) \/ PlaceOrderSelectItems(r) \/ PlaceOrderInsertOrder(r)
  \/ PlaceOrderInsertOrderItem(r) \/ PlaceOrderDeleteCart(r)
  \/ PlaceOrderDeleteResume(r) \/ PlaceOrderCommit(r)

\* ------------------------------------------------------------ DELETE /cart/remove/:itemId
RemoveItemStart(r) ==
  /\ Free(r)
  /\ \E u \in Users, i \in 1..budget.items :
       reqs' = Set(r, [Idle EXCEPT !.op = "RemoveItem", !.user = u,
                                   !.arg = [itemId |-> i], !.pc = "connect"])
  /\ UNCHANGED <<store, seqs, pool, charges>>

\* mutant: the DELETE does not ask whose cart the item is in
RemoveItemDeleteAnyOwner(r) ==
  /\ At(r, "delete")
  /\ LET ids == { ci.id : ci \in { x \in cartItems : x.id = reqs[r].arg.itemId } }
     IN \/ /\ LockedByOther(r, ids)
           /\ reqs' = Set(r, [reqs[r] EXCEPT !.pc = "deleteWait", !.targets = ids])
           /\ UNCHANGED <<cartItems, pool>>
        \/ /\ ~LockedByOther(r, ids)
           /\ cartItems' = { ci \in cartItems : ci.id \notin ids }
           /\ Respond(r, [status |-> 200, error |-> "", rows |-> <<>>])
        \/ Caught(r, 400, "StoreError") /\ UNCHANGED cartItems
  /\ UNCHANGED <<carts, orders, orderItems, payments, seqs, charges>>

\* mutant: a DELETE that matches no row is answered as an error
RemoveItemDeleteNotFound(r) ==
  /\ At(r, "delete")
  /\ LET ids == { ci.id : ci \in { x \in CartItemsOf(reqs[r].user) :
                                     x.id = reqs[r].arg.itemId } }
     IN \/ /\ LockedByOther(r, ids)
           /\ reqs' = Set(r, [reqs[r] EXCEPT !.pc = "deleteWait", !.targets = ids])
           /\ UNCHANGED <<cartItems, pool>>
        \/ /\ ~LockedByOther(r, ids)
           /\ cartItems' = { ci \in cartItems : ci.id \notin ids }
           /\ IF ids = {} THEN Caught(r, 404, "Item not found")
              ELSE Respond(r, [status |-> 200, error |-> "", rows |-> <<>>])
        \/ Caught(r, 400, "StoreError") /\ UNCHANGED cartItems
  /\ UNCHANGED <<carts, orders, orderItems, payments, seqs, charges>>

\* DELETE FROM cart_items WHERE id = $1 AND cart_id IN (SELECT id FROM
\* shopping_carts WHERE user_id = $2); res.send({ message: ... })
RemoveItemDelete(r) ==
  /\ At(r, "delete")
  /\ LET ids == { ci.id : ci \in { x \in CartItemsOf(reqs[r].user) :
                                     x.id = reqs[r].arg.itemId } }
     IN \/ /\ LockedByOther(r, ids)
           /\ reqs' = Set(r, [reqs[r] EXCEPT !.pc = "deleteWait", !.targets = ids])
           /\ UNCHANGED <<cartItems, pool>>
        \/ /\ ~LockedByOther(r, ids)
           /\ cartItems' = { ci \in cartItems : ci.id \notin ids }
           /\ Respond(r, [status |-> 200, error |-> "", rows |-> <<>>])
        \/ Caught(r, 400, "StoreError") /\ UNCHANGED cartItems
  /\ UNCHANGED <<carts, orders, orderItems, payments, seqs, charges>>

\* the lock holder has ended: the DELETE goes on with the rows that still exist
RemoveItemResume(r) ==
  /\ At(r, "deleteWait") /\ reqs[r].op = "RemoveItem"
  /\ ~LockedByOther(r, reqs[r].targets)
  /\ cartItems' = { ci \in cartItems : ci.id \notin reqs[r].targets }
  /\ Respond(r, [status |-> 200, error |-> "", rows |-> <<>>])
  /\ UNCHANGED <<carts, orders, orderItems, payments, seqs, charges>>

RemoveItem(r) == RemoveItemStart(r) \/ RemoveItemDelete(r) \/ RemoveItemResume(r)

\* ------------------------------------------------------------ POST /payment/process
\* mutant: the total is rounded to whole dollars before it is multiplied
MinorUnitsOfRounded(c) == ((c + 50) \div 100) * 100

\* Math.round(order.rows[0].total_amount * 100): the DECIMAL(10,2) total, held
\* here as c cents, is the number c/100; times 100, rounded half up
MinorUnits(c) == (2 * c + 1) \div 2

ProcessPaymentStart(r) ==
  /\ Free(r)
  /\ \E u \in Users, o \in 1..budget.orders, m \in Methods :
       reqs' = Set(r, [Idle EXCEPT !.op = "ProcessPayment", !.user = u,
                                   !.arg = [order_id |-> o, payment_method |-> m],
                                   !.pc = "connect"])
  \* the gateway's log is bounded: leave room for the charge this call may send
  /\ Len(charges) + Cardinality({q \in Reqs : reqs[q].op = "ProcessPayment"
                          /\ reqs[q].pc \in {"connect", "selectOrder"}}) < budget.charges
  /\ UNCHANGED <<store, seqs, pool, charges>>

\* mutant: the order is loaded by its id alone
ProcessPaymentSelectOrderAnyUser(r) ==
  /\ At(r, "selectOrder")
  /\ LET rows == { o \in orders : o.id = reqs[r].arg.order_id }
     IN \/ /\ rows = {}
           /\ Caught(r, 400, "Order not found")
           /\ UNCHANGED charges
        \/ /\ \E o \in rows :
                /\ reqs' = Set(r, [reqs[r] EXCEPT !.pc = "awaitGateway", !.order = o,
                                                  !.charge = Len(charges) + 1])
                /\ charges' = Append(charges,
                     [order_id |-> o.id, amount |-> MinorUnits(o.total_amount),
                      currency |-> "usd", state |-> "sent", captured |-> FALSE])
           /\ UNCHANGED pool
        \/ Caught(r, 400, "StoreError") /\ UNCHANGED charges
  /\ UNCHANGED <<store, seqs>>

\* mutant: the SELECT also sees the orders of transactions that are still open
ProcessPaymentSelectOrderDirty(r) ==
  /\ At(r, "selectOrder")
  /\ LET rows == { o \in orders \cup UNION { reqs[q].txOrders : q \in Reqs } :
                     o.id = reqs[r].arg.order_id /\ o.user_id = reqs[r].user }
     IN \/ /\ rows = {}
           /\ Caught(r, 400, "Order not found")
           /\ UNCHANGED charges
        \/ /\ \E o \in rows :
                /\ reqs' = Set(r, [reqs[r] EXCEPT !.pc = "awaitGateway", !.order = o,
                                                  !.charge = Len(charges) + 1])
                /\ charges' = Append(charges,
                     [order_id |-> o.id, amount |-> MinorUnits(o.total_amount),
                      currency |-> "usd", state |-> "sent", captured |-> FALSE])
           /\ UNCHANGED pool
        \/ Caught(r, 400, "StoreError") /\ UNCHANGED charges
  /\ UNCHANGED <<store, seqs>>

\* SELECT * FROM orders WHERE id = $1 AND user_id = $2;
\* if (order.rows.length === 0) throw new Error('Order not found');
\* stripe.paymentIntents.create({ amount, currency: 'usd', ... }) is called
ProcessPaymentSelectOrder(r) ==
  /\ At(r, "selectOrder")
  /\ LET rows == { o \in orders : o.id = reqs[r].arg.order_id
                                  /\ o.user_id = reqs[r].user }
     IN \/ /\ rows = {}
           /\ Caught(r, 400, "Order not found")
           /\ UNCHANGED charges
        \/ /\ \E o \in rows :
                /\ reqs' = Set(r, [reqs[r] EXCEPT !.pc = "awaitGateway", !.order = o,
                                                  !.charge = Len(charges) + 1])
                /\ charges' = Append(charges,
                     [order_id |-> o.id, amount |-> MinorUnits(o.total_amount),
                      currency |-> "usd", state |-> "sent", captured |-> FALSE])
           /\ UNCHANGED pool
        \/ Caught(r, 400, "StoreError") /\ UNCHANGED charges
  /\ UNCHANGED <<store, seqs>>

\* mutant: a declined charge marks the order as failed
GatewayReplyMarksFailed(r) ==
  /\ At(r, "awaitGateway")
  /\ LET k == reqs[r].charge
     IN \/ /\ charges' = [charges EXCEPT ![k].state = "succeeded",
                                          ![k].captured = TRUE]
           /\ reqs' = Set(r, [reqs[r] EXCEPT !.pc = "insertPayment", !.intent = k])
           /\ UNCHANGED <<pool, orders>>
        \/ /\ charges' = [charges EXCEPT ![k].state = "declined"]
           /\ orders' = { IF o.id = reqs[r].arg.order_id
                          THEN [o EXCEPT !.status = "failed"] ELSE o : o \in orders }
           /\ Caught(r, 400, "card_declined")
        \/ /\ \E c \in BOOLEAN :
                charges' = [charges EXCEPT ![k].state = "timeout", ![k].captured = c]
           /\ Caught(r, 400, "gateway_timeout")
           /\ UNCHANGED orders
  /\ UNCHANGED <<carts, cartItems, orderItems, payments, seqs>>

\* mutant: a charge request that is not answered in time is sent again
GatewayReplyRetries(r) ==
  /\ At(r, "awaitGateway")
  /\ LET k == reqs[r].charge
     IN \/ /\ charges' = [charges EXCEPT ![k].state = "succeeded",
                                          ![k].captured = TRUE]
           /\ reqs' = Set(r, [reqs[r] EXCEPT !.pc = "insertPayment", !.intent = k])
           /\ UNCHANGED pool
        \/ /\ charges' = [charges EXCEPT ![k].state = "declined"]
           /\ Caught(r, 400, "card_declined")
        \/ /\ Len(charges) < budget.charges
           /\ \E c \in BOOLEAN :
                charges' = Append([charges EXCEPT ![k].state = "timeout",
                                                  ![k].captured = c],
                                  [charges[k] EXCEPT !.state = "sent"])
           /\ reqs' = Set(r, [reqs[r] EXCEPT !.charge = Len(charges) + 1])
           /\ UNCHANGED pool
        \/ /\ \E c \in BOOLEAN :
                charges' = [charges EXCEPT ![k].state = "timeout", ![k].captured = c]
           /\ Caught(r, 400, "gateway_timeout")
  /\ UNCHANGED <<store, seqs>>

\* the gateway answers the charge request: the payment intent, a decline, or no
\* answer in time (the money may or may not have been taken: `captured`)
GatewayReply(r) ==
  /\ At(r, "awaitGateway")
  /\ LET k == reqs[r].charge
     IN \/ /\ charges' = [charges EXCEPT ![k].state = "succeeded",
                                          ![k].captured = TRUE]
           /\ reqs' = Set(r, [reqs[r] EXCEPT !.pc = "insertPayment", !.intent = k])
           /\ UNCHANGED pool
        \/ /\ charges' = [charges EXCEPT ![k].state = "declined"]
           /\ Caught(r, 400, "card_declined")
        \/ /\ \E c \in BOOLEAN :
                charges' = [charges EXCEPT ![k].state = "timeout", ![k].captured = c]
           /\ Caught(r, 400, "gateway_timeout")
  /\ UNCHANGED <<store, seqs>>

\* mutant: the status of the order is changed before the payments row is written
ProcessPaymentInsertPaymentAfterStatus(r) ==
  /\ At(r, "insertPayment")
  /\ \/ /\ orders' = { IF o.id = reqs[r].arg.order_id
                       THEN [o EXCEPT !.status = "paid"] ELSE o : o \in orders }
        /\ reqs' = Set(r, [reqs[r] EXCEPT !.pc = "updateStatus"])
        /\ UNCHANGED pool
     \/ Caught(r, 400, "StoreError") /\ UNCHANGED orders
  /\ UNCHANGED <<carts, cartItems, payments, orderItems, seqs, charges>>

\* INSERT INTO payments (order_id, amount, status, payment_method,
\* transaction_id) VALUES (order_id, total_amount, 'completed', payment_method,
\* paymentIntent.id)
ProcessPaymentInsertPayment(r) ==
  /\ At(r, "insertPayment")
  /\ \/ /\ payments' = payments \cup
              {[id |-> Cardinality(payments) + 1,
                order_id |-> reqs[r].arg.order_id,
                amount |-> reqs[r].order.total_amount,
                status |-> "completed",
                payment_method |-> reqs[r].arg.payment_method,
                transaction_id |-> reqs[r].intent]}
        /\ reqs' = Set(r, [reqs[r] EXCEPT !.pc = "updateStatus"])
        /\ UNCHANGED pool
     \/ Caught(r, 400, "StoreError") /\ UNCHANGED payments
  /\ UNCHANGED <<carts, cartItems, orders, orderItems, seqs, charges>>

\* mutant: the order takes the status of the payment row
ProcessPaymentUpdateStatusCompleted(r) ==
  /\ At(r, "updateStatus")
  /\ \/ /\ orders' = { IF o.id = reqs[r].arg.order_id
                       THEN [o EXCEPT !.status = "completed"] ELSE o : o \in orders }
        /\ Respond(r, [status |-> 200, error |-> "", rows |-> <<>>])
     \/ Caught(r, 400, "StoreError") /\ UNCHANGED orders
  /\ UNCHANGED <<carts, cartItems, orderItems, payments, seqs, charges>>

\* UPDATE orders SET status = 'paid', updated_at = ... WHERE id = $2;
\* res.send({ message: 'Payment processed successfully' })
ProcessPaymentUpdateStatus(r) ==
  /\ At(r, "updateStatus")
  /\ \/ /\ orders' = { IF o.id = reqs[r].arg.order_id
                       THEN [o EXCEPT !.status = "paid"] ELSE o : o \in orders }
        /\ Respond(r, [status |-> 200, error |-> "", rows |-> <<>>])
     \/ Caught(r, 400, "StoreError") /\ UNCHANGED orders
  /\ UNCHANGED <<carts, cartItems, orderItems, payments, seqs, charges>>

ProcessPayment(r) ==
  \/ ProcessPaymentStart(r) \/ ProcessPaymentSelectOrder(r) \/ GatewayReply(r)
  \/ ProcessPaymentInsertPayment(r) \/ ProcessPaymentUpdateStatus(r)

\* ------------------------------------------------------------ GET /cart
GetCartStart(r) ==
  /\ Free(r)
  /\ \E u \in Users :
       reqs' = Set(r, [Idle EXCEPT !.op = "GetCart", !.user = u, !.pc = "connect"])
  /\ UNCHANGED <<store, seqs, pool, charges>>

\* mutant: the items of every cart are returned
GetCartSelectAllCarts(r) ==
  /\ At(r, "getCart")
  /\ \/ Respond(r, [status |-> 200, error |-> "", rows |-> SetToSeq(cartItems)])
     \/ Caught(r, 500, "StoreError")
  /\ UNCHANGED <<store, seqs, charges>>

\* SELECT ci.* FROM cart_items ci JOIN shopping_carts sc ON ci.cart_id = sc.id
\* WHERE sc.user_id = $1; res.send(cart.rows)
GetCartSelect(r) ==
  /\ At(r, "getCart")
  /\ \/ Respond(r, [status |-> 200, error |-> "",
                     rows |-> SetToSeq(CartItemsOf(reqs[r].user))])
     \/ Caught(r, 500, "StoreError")
  /\ UNCHANGED <<store, seqs, charges>>

GetCart(r) == GetCartStart(r) \/ GetCartSelect(r)

\* ------------------------------------------------------------ GET /orders
\* what json_agg(oi.*) gives for the row that the LEFT JOIN makes of an order
\* without order items
NullItem == [id |-> 0]

\* SELECT o.*, json_agg(oi.*) as items FROM orders o LEFT JOIN order_items oi
\* ON o.id = oi.order_id WHERE o.user_id = u GROUP BY o.id
OrdersWithItems(u) ==
  { [order |-> o,
     items |-> LET lines == { oi \in orderItems : oi.order_id = o.id }
               IN IF lines = {} THEN {NullItem} ELSE lines] :
      o \in { x \in orders : x.user_id = u } }

\* ORDER BY o.created_at DESC: the rows in an order in which created_at never
\* increases (rows of one created_at come in any order)
OrderByCreatedAtDesc(S) ==
  { s \in [1..Cardinality(S) -> S] :
      /\ \A i, j \in DOMAIN s : i # j => s[i] # s[j]
      /\ \A i, j \in DOMAIN s :
           i < j => s[i].order.created_at >= s[j].order.created_at }

ListOrdersStart(r) ==
  /\ Free(r)
  /\ \E u \in Users :
       reqs' = Set(r, [Idle EXCEPT !.op = "ListOrders", !.user = u,
                                   !.pc = "connect"])
  /\ UNCHANGED <<store, seqs, pool, charges>>

\* mutant: the orders are sorted by their ids (ORDER BY o.id DESC)
ListOrdersSelectById(r) ==
  /\ At(r, "listOrders")
  /\ \/ \E rows \in { s \in OrderByCreatedAtDesc(OrdersWithItems(reqs[r].user))
                            \cup [1..Cardinality(OrdersWithItems(reqs[r].user))
                                    -> OrdersWithItems(reqs[r].user)] :
                        /\ \A i, j \in DOMAIN s : i # j => s[i] # s[j]
                        /\ \A i, j \in DOMAIN s :
                             i < j => s[i].order.id >= s[j].order.id } :
          Respond(r, [status |-> 200, error |-> "", rows |-> rows])
     \/ Caught(r, 500, "StoreError")
  /\ UNCHANGED <<store, seqs, charges>>

\* the SELECT of GET /orders; res.send(orders.rows)
ListOrdersSelect(r) ==
  /\ At(r, "listOrders")
  /\ \/ \E rows \in OrderByCreatedAtDesc(OrdersWithItems(reqs[r].user)) :
          Respond(r, [status |-> 200, error |-> "", rows |-> rows])
     \/ Caught(r, 500, "StoreError")
  /\ UNCHANGED <<store, seqs, charges>>

ListOrders(r) == ListOrdersStart(r) \/ ListOrdersSelect(r)

\* ------------------------------------------------------------ auth
Operations ==
  {"AddItem", "RemoveItem", "GetCart", "PlaceOrder", "ProcessPayment", "ListOrders"}

\* the Authorization header of a request that jwt.verify does not accept, or no
\* header at all
BadCredentials == {"missing", "invalid"}

\* mutant: the catch block answers 401 and the handler is called all the same
RejectFallsThrough(r) ==
  /\ Free(r)
  /\ \E op \in Operations, c \in BadCredentials :
       reqs' = Set(r, [Idle EXCEPT !.op = op, !.arg = [credential |-> c],
                        !.pc = "connect", !.error = "Please authenticate.",
                        !.resp = [status |-> 401, error |-> "Please authenticate.",
                                  rows |-> <<>>]])
  /\ UNCHANGED <<store, seqs, pool, charges>>

\* const token = req.header('Authorization').replace('Bearer ', '');
\* jwt.verify(token, JWT_SECRET) throws: res.status(401).send({ error: 'Please
\* authenticate.' }) and next() is not called.  (With a token that verifies,
\* req.user.id is the user of the token and the handler starts: the Start
\* actions.)
Reject(r) ==
  /\ Free(r)
  /\ \E op \in Operations, c \in BadCredentials :
       reqs' = Set(r, [Idle EXCEPT !.op = op, !.arg = [credential |-> c],
                        !.pc = "done", !.error = "Please authenticate.",
                        !.resp = [status |-> 401, error |-> "Please authenticate.",
                                  rows |-> <<>>]])
  /\ UNCHANGED <<store, seqs, pool, charges>>

\* ------------------------------------------------------------ PUT /products/:id
\* product-service: updates.forEach(update => product[update] = req.body[update]);
\* await product.save().  The catalog lives in the product service's own
\* database; the order service never reads it (the price of a cart item is the
\* one the request body of POST /cart/add carries).
\* mutant: the new price reaches the order items of the product
UpdateProductRepricesOrders ==
  /\ ~Observed
  /\ budget.updates
  /\ \E p \in ProductIds : \E price \in Prices \ {products[p]} :
       /\ products' = [products EXCEPT ![p] = price]
       /\ orderItems' = { IF oi.product_id = p THEN [oi EXCEPT !.price = price]
                          ELSE oi : oi \in orderItems }
  /\ UNCHANGED <<carts, cartItems, orders, payments, cartSeq, itemSeq, orderSeq,
                 orderItemSeq, budget, pool, charges, reqs>>

UpdateProduct ==
  /\ ~Observed
  /\ budget.updates
  /\ \E p \in ProductIds : \E price \in Prices \ {products[p]} :
       products' = [products EXCEPT ![p] = price]
  /\ UNCHANGED <<store, cartSeq, itemSeq, orderSeq, orderItemSeq, budget, pool,
                 charges, reqs>>

\* the steps of PlaceOrder when no other PlaceOrder transaction is open
PlaceOrderAlone(r) ==
  \/ PlaceOrderStart(r) \/ PlaceOrderSelectItems(r) \/ PlaceOrderInsertOrder(r)
  \/ PlaceOrderInsertOrderItem(r) \/ PlaceOrderDeleteCart(r) \/ PlaceOrderCommit(r)

\* ---- every operation; the workload admits one order, so that no two
\* PlaceOrder transactions are open together
Next ==
  \E r \in Reqs : Retire(r) \/ Connect(r) \/ Begin(r) \/ Rollback(r) \/ AddItem(r)
                  \/ RemoveItem(r) \/ PlaceOrderAlone(r) \/ ProcessPayment(r)

Spec == Init /\ [][Next]_vars

\* ---- the payment workload: one order, charged up to three times
InitPay == InitWith([carts |-> PayCartId, items |-> PayItemId,
                     orders |-> PayOrderId, charges |-> PayCharges,
                     updates |-> FALSE, inputs |-> AddInputs,
   pool |-> NumReqs, clock |-> 0])

NextPay ==
  \E r \in Reqs : Retire(r) \/ Connect(r) \/ Begin(r) \/ Rollback(r) \/ AddItem(r)
                  \/ PlaceOrderAlone(r) \/ ProcessPayment(r)

SpecPay == InitPay /\ [][NextPay]_vars

\* ---- the cart workload in which no AddItem of a user runs while a PlaceOrder
\* of the same user does
InitQuiet == InitWith([carts |-> QuietCartId, items |-> QuietItemId,
                       orders |-> QuietOrderId, charges |-> 0,
                       updates |-> FALSE, inputs |-> AddInputs,
   pool |-> NumReqs, clock |-> 0])

Overlaps(r, op) ==
  \E q \in Reqs \ {r} : InFlight(q) /\ reqs[q].op = op /\ reqs[q].user = reqs'[r].user

AddItemStartQuiet(r) == AddItemStart(r) /\ ~Overlaps(r, "PlaceOrder")

PlaceOrderStartQuiet(r) == PlaceOrderStart(r) /\ ~Overlaps(r, "AddItem")

NextQuiet ==
  \E r \in Reqs :
     \/ Retire(r) \/ Connect(r) \/ Begin(r) \/ Rollback(r) \/ RemoveItem(r)
     \/ AddItemStartQuiet(r)
     \/ AddItemSelectCart(r) \/ AddItemInsertCart(r)
     \/ AddItemInsertItem(r) \/ AddItemCommit(r)
     \/ PlaceOrderStartQuiet(r)
     \/ PlaceOrderSelectItems(r) \/ PlaceOrderInsertOrder(r)
     \/ PlaceOrderInsertOrderItem(r) \/ PlaceOrderDeleteCart(r)
     \/ PlaceOrderCommit(r)

SpecQuiet == InitQuiet /\ [][NextQuiet]_vars

\* ---- every operation, with two orders: two PlaceOrder transactions may be
\* open together
InitOrders == InitWith([carts |-> OrdersCartId, items |-> OrdersItemId,
                        orders |-> OrdersOrderId, charges |-> OrdersCharges,
                        updates |-> FALSE, inputs |-> AddInputs,
   pool |-> NumReqs, clock |-> 0])

NextOrders ==
  \E r \in Reqs : Retire(r) \/ Connect(r) \/ Begin(r) \/ Rollback(r) \/ AddItem(r)
                  \/ RemoveItem(r) \/ PlaceOrder(r) \/ ProcessPayment(r)

SpecOrders == InitOrders /\ [][NextOrders]_vars

\* ---- every operation and the catalog, from the store that u1's first order
\* has left: AddItem(u1, pA, 2, 20.00) and PlaceOrder(u1, addr) have committed
FirstOrder ==
  [id |-> 1, user_id |-> "u1", status |-> "pending", total_amount |-> 4000,
   shipping_address |-> "addr", created_at |-> 0]

FirstOrderItem ==
  [id |-> 1, order_id |-> 1, product_id |-> "pA", quantity |-> 2, price |-> 2000]

InitFrame ==
  /\ budget = [carts |-> FrameCartId, items |-> FrameItemId,
               orders |-> FrameOrderId, charges |-> FrameCharges,
               updates |-> TRUE, inputs |-> AddInputs,
   pool |-> NumReqs, clock |-> 0]
  /\ carts = {[id |-> 1, user_id |-> "u1"]}
  /\ cartItems = {}
  /\ orders = {FirstOrder}
  /\ orderItems = {FirstOrderItem}
  /\ payments = {}
  /\ cartSeq = 2 /\ itemSeq = 2 /\ orderSeq = 2 /\ orderItemSeq = 2
  /\ pool = [r \in Reqs |-> 0]
  /\ charges = <<>>
  /\ products = [p \in ProductIds |->
                   (CHOOSE a \in AddInputs : a.product_id = p).price]
  /\ reqs = [r \in Reqs |-> Idle]

NextFrame ==
  \/ \E r \in Reqs : Retire(r) \/ Connect(r) \/ Begin(r) \/ Rollback(r) \/ AddItem(r)
                     \/ RemoveItem(r) \/ PlaceOrderAlone(r) \/ ProcessPayment(r)
  \/ UpdateProduct

SpecFrame == InitFrame /\ [][NextFrame]_vars

\* ---- AddItem with request bodies of every kind
InitInputs == InitWith([carts |-> InputsCartId, items |-> InputsItemId,
                        orders |-> 0, charges |-> 0, updates |-> FALSE,
                        inputs |-> AddInputs \cup InvalidInputs,
                        pool |-> NumReqs, clock |-> 0])

NextInputs ==
  \E r \in Reqs : Retire(r) \/ Connect(r) \/ Begin(r) \/ Rollback(r) \/ AddItem(r)

SpecInputs == InitInputs /\ [][NextInputs]_vars

\* ---- the reading operations beside RemoveItem and PlaceOrder, with two orders
\* and the clock,
\* from the store that an AddItem of each user has left: AddItem(u1, pA, 2,
\* 20.00) and AddItem(u2, pB, 1, 15.00) have committed
FirstItems ==
  { [id |-> 1, cart_id |-> 1, product_id |-> "pA", quantity |-> 2, price |-> 2000],
    [id |-> 2, cart_id |-> 2, product_id |-> "pB", quantity |-> 1, price |-> 1500] }

InitRead ==
  /\ budget = [carts |-> 2, items |-> 2, orders |-> ReadOrderId, charges |-> 0,
               updates |-> FALSE, inputs |-> AddInputs, pool |-> NumReqs,
               clock |-> ReadClock]
  /\ carts = {[id |-> 1, user_id |-> "u1"], [id |-> 2, user_id |-> "u2"]}
  /\ cartItems = FirstItems
  /\ orders = {} /\ orderItems = {} /\ payments = {}
  /\ cartSeq = 3 /\ itemSeq = 3 /\ orderSeq = 1 /\ orderItemSeq = 1
  /\ pool = [r \in Reqs |-> 0]
  /\ charges = <<>>
  /\ products = [p \in ProductIds |->
                   (CHOOSE a \in AddInputs : a.product_id = p).price]
  /\ reqs = [r \in Reqs |-> Idle]

NextRead ==
  \E r \in Reqs : Retire(r) \/ Connect(r) \/ Begin(r) \/ Rollback(r)
                  \/ RemoveItem(r) \/ PlaceOrder(r) \/ GetCart(r)
                  \/ ListOrders(r) \/ Reject(r)

SpecRead == InitRead /\ [][NextRead]_vars

\* ---- the operations on carts
InitCart == InitWith([carts |-> CartCartId, items |-> CartItemId, orders |-> 0,
                      charges |-> 0, updates |-> FALSE, inputs |-> AddInputs,
                      pool |-> NumReqs, clock |-> 0])

NextCart ==
  \E r \in Reqs : Retire(r) \/ Connect(r) \/ Begin(r) \/ Rollback(r) \/ AddItem(r)
                  \/ RemoveItemStart(r) \/ RemoveItemDelete(r) \/ GetCart(r)

SpecCart == InitCart /\ [][NextCart]_vars

\* ---- every operation on a pool of one client, from the store that an AddItem
\* of u2 has left: AddItem(u2, pB, 1, 15.00) has committed
InitStore(b) ==
  /\ budget = b
  /\ carts = {[id |-> 1, user_id |-> "u2"]}
  /\ cartItems = {[id |-> 1, cart_id |-> 1, product_id |-> "pB", quantity |-> 1,
                   price |-> 1500]}
  /\ orders = {} /\ orderItems = {} /\ payments = {}
  /\ cartSeq = 2 /\ itemSeq = 2 /\ orderSeq = 1 /\ orderItemSeq = 1
  /\ pool = [r \in Reqs |-> 0]
  /\ charges = <<>>
  /\ products = [p \in ProductIds |->
                   (CHOOSE a \in AddInputs : a.product_id = p).price]
  /\ reqs = [r \in Reqs |-> Idle]

InitPool ==
  InitStore([carts |-> PoolCartId, items |-> PoolItemId, orders |-> PoolOrderId,
             charges |-> PoolCharges, updates |-> FALSE, inputs |-> AddInputs,
             pool |-> PoolSize, clock |-> 0])

NextPool ==
  \E r \in Reqs : Retire(r) \/ Connect(r) \/ Begin(r) \/ Rollback(r) \/ AddItem(r)
                  \/ RemoveItemStart(r) \/ RemoveItemDelete(r) \/ GetCart(r)
                  \/ PlaceOrderAlone(r) \/ ProcessPayment(r) \/ ListOrders(r)
                  \/ Reject(r)

SpecPool == InitPool /\ [][NextPool]_vars

\* ---- every operation, each request with a client of its own, from the same
\* store
InitAll ==
  InitStore([carts |-> AllCartId, items |-> AllItemId, orders |-> AllOrderId,
             charges |-> AllCharges, updates |-> FALSE, inputs |-> AddInputs,
             pool |-> NumReqs, clock |-> 0])

NextAll ==
  \E r \in Reqs : Retire(r) \/ Connect(r) \/ ConnectFails(r) \/ Begin(r)
                  \/ Rollback(r) \/ AddItem(r)
                  \/ RemoveItem(r) \/ GetCart(r) \/ PlaceOrderAlone(r)
                  \/ ProcessPayment(r) \/ ListOrders(r) \/ Reject(r)

SpecAll == InitAll /\ [][NextAll]_vars

\* ---- the payment workload with a price that is no whole number of dollars:
\* 19.99
AmountInputs ==
  { [product_id |-> "pA", quantity |-> 2, price |-> 1999],
    [product_id |-> "pB", quantity |-> 1, price |-> 1500] }

InitAmount ==
  InitWith([carts |-> AmountCartId, items |-> AmountItemId,
            orders |-> AmountOrderId, charges |-> AmountCharges,
            updates |-> FALSE, inputs |-> AmountInputs,
            pool |-> NumReqs, clock |-> 0])

SpecAmount == InitAmount /\ [][NextPay]_vars

\* ==================================================================== claims
tables == <<carts, cartItems, orders, orderItems, payments>>

RECURSIVE SumRows(_)
\* the sum of price * quantity over a set of rows
SumRows(S) ==
  IF S = {} THEN 0
  ELSE LET x == CHOOSE y \in S : TRUE
       IN x.price * x.quantity + SumRows(S \ {x})

Completed(id) == { p \in payments : p.order_id = id /\ p.status = "completed" }

Returned(r, op) == reqs[r].op = op /\ reqs[r].pc = "done"

\* r takes a step (each step changes the record of the handler that takes it)
Steps(r) == reqs'[r] # reqs[r]

\* C1: a PlaceOrder that succeeds on a cart with at least one item has created one
\* order, its total_amount is the sum of price * quantity over the cart items it
\* loaded, and when no AddItem of the user ran meanwhile the user's cart holds no
\* item when PlaceOrder returns.
C1_PlaceOrderTotalAndEmptyCart ==
  \A r \in Reqs :
    (Returned(r, "PlaceOrder") /\ reqs[r].resp.status = 201) =>
      /\ Len(reqs[r].loaded) >= 1
      /\ \E o \in orders :
           /\ reqs[r].txOrders = {o}
           /\ { x \in orders : x.id = o.id } = {o}
           /\ o.user_id = reqs[r].user
           /\ o.total_amount = SumRows(SeqToSet(reqs[r].loaded))
      /\ CartItemsOf(reqs[r].user) = {}

\* the scenario of two lines: 2 x 20.00 + 1 x 15.00 = 55.00
C1_Witness ==
  \E r \in Reqs :
    /\ Returned(r, "PlaceOrder") /\ reqs[r].resp.status = 201
    /\ Len(reqs[r].loaded) = 2
    /\ reqs[r].order.total_amount = 5500

\* C2: PlaceOrder is all-or-nothing: no step of a PlaceOrder other than its
\* successful COMMIT changes a committed table, so a PlaceOrder that fails at any
\* step (load, order insert, order item insert, cart delete, commit) leaves no
\* order row, no order_items row, and the cart items as they were.
C2_PlaceOrderAllOrNothing ==
  [][\A r \in Reqs :
       ( /\ reqs[r].op = "PlaceOrder"
         /\ Steps(r)
         /\ ~(reqs'[r].pc = "done" /\ reqs'[r].resp.status = 201) )
       => UNCHANGED tables]_vars

\* a PlaceOrder has failed after it had inserted its order, on a cart with items
C2_Witness ==
  \E r \in Reqs :
    /\ Returned(r, "PlaceOrder") /\ reqs[r].resp.status = 400
    /\ reqs[r].error = "StoreError"
    /\ orderSeq = 2 /\ orders = {} /\ orderItems = {}
    /\ CartItemsOf(reqs[r].user) # {}

\* C3: in every committed state every order's total_amount is the sum of
\* price * quantity over its own order_items rows.
C3_OrderTotalIsSumOfItems ==
  \A o \in orders :
    o.total_amount = SumRows({ oi \in orderItems : oi.order_id = o.id })

\* an order was committed while an AddItem of the same user committed during
\* the PlaceOrder transaction: the order has the line that was loaded and the
\* new item is in the cart
C3_Witness ==
  \E r \in Reqs :
    /\ Returned(r, "PlaceOrder") /\ reqs[r].resp.status = 201
    /\ Cardinality({ oi \in orderItems : oi.order_id = reqs[r].order.id }) = 1
    /\ CartItemsOf(reqs[r].user) # {}

\* C4: a PlaceOrder that finds no item in the user's cart (or no cart row) raises
\* 'Cart is empty', answers with that error, and no step of it changes a table or
\* takes an id, so that a repeated call finds the same store.  (A store failure
\* of the SELECT or of the ROLLBACK is the store's error, not the operation's.)
C4_EmptyCartFails ==
  [][\A r \in Reqs :
       /\ ( /\ reqs[r].op = "PlaceOrder" /\ reqs[r].pc = "selectItems"
            /\ Steps(r)
            /\ CartItemsOf(reqs[r].user) = {} )
          => /\ reqs'[r].pc = "rollback"
             /\ reqs'[r].error \in {"Cart is empty", "StoreError"}
             /\ UNCHANGED <<tables, seqs>>
       /\ ( /\ reqs[r].op = "PlaceOrder" /\ reqs[r].pc = "rollback"
            /\ reqs[r].error = "Cart is empty"
            /\ Steps(r) )
          => /\ reqs'[r].pc = "done"
             /\ reqs'[r].resp \in
                  {[status |-> 400, error |-> "Cart is empty", rows |-> <<>>], NoResp}
             /\ UNCHANGED <<tables, seqs>>]_vars

\* the user has a cart row without items and PlaceOrder has answered
C4_Witness ==
  \E r \in Reqs :
    /\ Returned(r, "PlaceOrder")
    /\ reqs[r].resp = [status |-> 400, error |-> "Cart is empty", rows |-> <<>>]
    /\ \E sc \in carts : sc.user_id = reqs[r].user

\* C5: each order has at most one Payment row with status completed.
C5_AtMostOneCompletedPayment ==
  \A o \in orders : Cardinality(Completed(o.id)) <= 1

\* C6: a ProcessPayment of the owner that succeeds on an order it found pending,
\* with no completed payment older than its own charge, returns with the order
\* paid and exactly one completed Payment row for it: the row with the gateway's
\* transaction id, the given payment method and the order's total_amount.
C6_SuccessfulPaymentExactlyOne ==
  \A r \in Reqs :
    ( /\ Returned(r, "ProcessPayment") /\ reqs[r].resp.status = 200
      /\ reqs[r].order.status = "pending"
      /\ \A p \in Completed(reqs[r].order.id) : p.transaction_id >= reqs[r].intent )
    => /\ \A o \in orders : o.id = reqs[r].order.id => o.status = "paid"
       /\ \E p \in payments :
            /\ Completed(reqs[r].order.id) = {p}
            /\ p.transaction_id = reqs[r].intent
            /\ p.payment_method = reqs[r].arg.payment_method
            /\ p.amount = reqs[r].order.total_amount

\* the errors of the gateway
GatewayErrors == {"card_declined", "gateway_timeout"}

\* the charge of another handler on order `id` that the gateway answered with a
\* payment intent
IntentFor(id) ==
  \E k \in 1..Len(charges) : charges[k].order_id = id /\ charges[k].state = "succeeded"

\* C7 as stated: after a decline on an order found pending the caller has the
\* gateway's reason, the order is pending and has no completed Payment row.
C7_DeclineLeavesPending ==
  \A r \in Reqs :
    ( /\ Returned(r, "ProcessPayment") /\ reqs[r].error = "card_declined"
      /\ reqs[r].order.status = "pending" )
    => /\ reqs[r].resp = [status |-> 400, error |-> "card_declined", rows |-> <<>>]
       /\ \A o \in orders : o.id = reqs[r].order.id => o.status = "pending"
       /\ Completed(reqs[r].order.id) = {}

\* C7 amended: a ProcessPayment whose charge the gateway declines or fails
\* answers 400 with the gateway's error and changes no row of any table; the
\* order it found pending is still pending and without a completed Payment row
\* unless the gateway answered another charge on that order with a payment
\* intent.
C7_DeclineChangesNothing ==
  /\ [][\A r \in Reqs :
         ( /\ reqs[r].op = "ProcessPayment" /\ Steps(r)
           /\ reqs'[r].error \in GatewayErrors )
         => /\ reqs[r].pc = "awaitGateway" /\ reqs'[r].pc = "done"
            /\ reqs'[r].resp = [status |-> 400, error |-> reqs'[r].error,
                                rows |-> <<>>]
            /\ UNCHANGED tables]_vars
  /\ [](\A r \in Reqs :
         ( /\ Returned(r, "ProcessPayment") /\ reqs[r].error \in GatewayErrors
           /\ reqs[r].order.status = "pending"
           /\ ~IntentFor(reqs[r].order.id) )
         => /\ \A o \in orders : o.id = reqs[r].order.id => o.status = "pending"
            /\ Completed(reqs[r].order.id) = {})

\* a decline has been answered on a pending order that another charge had
\* been declined on before
C7_Witness ==
  \E r \in Reqs :
    /\ Returned(r, "ProcessPayment") /\ reqs[r].error = "card_declined"
    /\ reqs[r].charge = 2
    /\ \E o \in orders : o.id = reqs[r].order.id /\ o.status = "pending"

\* what the catch block of ProcessPayment tells the caller of a failed payment
PaymentFailed(rsp) == rsp.status = 400

\* C8: when the gateway call times out the caller gets an outcome that is not
\* the one of a failed payment; the order stays pending and no Payment row is
\* created.
C8_TimeoutIsIndeterminate ==
  \A r \in Reqs :
    (Returned(r, "ProcessPayment") /\ reqs[r].error = "gateway_timeout")
    => /\ ~PaymentFailed(reqs[r].resp)
       /\ ~IntentFor(reqs[r].order.id) =>
            /\ \A o \in orders : o.id = reqs[r].order.id => o.status = "pending"
            /\ Completed(reqs[r].order.id) = {}

\* C9: a ProcessPayment that succeeds on a pending, unpaid order after an
\* earlier attempt on it was declined has charged the amount of the declined
\* attempt and leaves the order paid with exactly one completed Payment row.
C9_RetryAfterDecline ==
  \A r \in Reqs :
    ( /\ Returned(r, "ProcessPayment") /\ reqs[r].resp.status = 200
      /\ reqs[r].order.status = "pending"
      /\ \E k \in 1..(reqs[r].charge - 1) :
           charges[k].order_id = reqs[r].order.id /\ charges[k].state = "declined"
      /\ \A p \in Completed(reqs[r].order.id) : p.transaction_id >= reqs[r].intent )
    => /\ \A k \in 1..(reqs[r].charge - 1) :
            charges[k].order_id = reqs[r].order.id
              => charges[k].amount = charges[reqs[r].charge].amount
       /\ \A o \in orders : o.id = reqs[r].order.id => o.status = "paid"
       /\ Cardinality(Completed(reqs[r].order.id)) = 1

\* C10: whenever no ProcessPayment is in progress on an order, the order has a
\* completed Payment row only if its status is paid.
C10_CompletedPaymentImpliesPaid ==
  \A o \in orders :
    ( /\ ~\E r \in Reqs : /\ reqs[r].op = "ProcessPayment" /\ InFlight(r)
                          /\ reqs[r].arg.order_id = o.id
      /\ Completed(o.id) # {} )
    => o.status = "paid"

\* C11: two PlaceOrder calls of one user that run together commit what they
\* would commit one after the other: no cart item row is copied into more than
\* one order, so the committed order_items rows are never more than the cart
\* item rows that were ever created.
C11_NoItemInTwoOrders ==
  Cardinality(orderItems) <= itemSeq - 1

\* C12: every cart item row that a committed PlaceOrder deleted is one of the
\* rows it loaded (and copied into the order_items of its order); a row that an
\* AddItem committed between the load and the DELETE is not deleted unless it
\* is in the order.
C12_DeletedItemsAreCopied ==
  \A r \in Reqs :
    (Returned(r, "PlaceOrder") /\ reqs[r].resp.status = 201)
    => /\ reqs[r].txDeleted \subseteq { ci.id : ci \in SeqToSet(reqs[r].loaded) }
       /\ Cardinality({ oi \in orderItems : oi.order_id = reqs[r].order.id })
            = Len(reqs[r].loaded)

\* the order_items rows of order `id`, in the order they were inserted
LinesOf(id) == SetToSeq({ oi \in orderItems : oi.order_id = id })

\* C13: a PlaceOrder that succeeds has created exactly one order_items row per
\* cart item row it loaded, each with the product id, quantity and price of its
\* cart item; two cart lines of one product give two order items, and the total
\* counts both.
C13_OneOrderItemPerCartItem ==
  \A r \in Reqs :
    (Returned(r, "PlaceOrder") /\ reqs[r].resp.status = 201)
    => LET lines == LinesOf(reqs[r].order.id)
           rows == reqs[r].loaded
       IN /\ Len(lines) = Len(rows)
          /\ \A i \in 1..Len(rows) :
               /\ lines[i].product_id = rows[i].product_id
               /\ lines[i].quantity = rows[i].quantity
               /\ lines[i].price = rows[i].price
          /\ reqs[r].order.total_amount = SumRows(SeqToSet(lines))

\* an order was placed from a cart with two lines of the same product
C13_Witness ==
  \E r \in Reqs :
    /\ Returned(r, "PlaceOrder") /\ reqs[r].resp.status = 201
    /\ Len(reqs[r].loaded) = 2
    /\ reqs[r].loaded[1].product_id = reqs[r].loaded[2].product_id
    /\ Len(LinesOf(reqs[r].order.id)) = 2

\* C14: once an order is committed no step of any operation (AddItem,
\* RemoveItem, another PlaceOrder, ProcessPayment of any user, a change of a
\* catalog price) changes its user id, total_amount or shipping_address, nor
\* adds, removes or changes an order_items row of it; only its status may change.
C14_OrderIsImmutable ==
  [][\A o \in orders :
       /\ \E n \in orders' :
            /\ { x \in orders' : x.id = o.id } = {n}
            /\ n.user_id = o.user_id
            /\ n.total_amount = o.total_amount
            /\ n.shipping_address = o.shipping_address
       /\ { oi \in orderItems' : oi.order_id = o.id }
            = { oi \in orderItems : oi.order_id = o.id }]_vars

\* the first order has been paid, a second order has been placed, the price of
\* the first order's product has changed in the catalog and an item was added
\* to a cart after the first order
C14_Witness ==
  /\ \E o \in orders : o.id = FirstOrder.id /\ o.status = "paid"
  /\ \E o \in orders : o.id # FirstOrder.id
  /\ products[FirstOrderItem.product_id] # FirstOrderItem.price
  /\ itemSeq > 2

\* the status changes of an order that the status domain admits
StatusChanges ==
  { <<"pending", "paid">>, <<"pending", "failed">>, <<"failed", "paid">> }

\* C15: every order is created with status pending, its status is always one
\* of pending, paid, failed, and a step changes the status of an order only
\* from pending to paid, from pending to failed or from failed to paid: a paid
\* order stays paid.
C15_OrderStatusDomain ==
  /\ [](\A o \in orders : o.status \in {"pending", "paid", "failed"})
  /\ [][\A n \in orders' :
          LET old == { o \in orders : o.id = n.id }
          IN /\ old = {} => n.status = "pending"
             /\ \A o \in old :
                  n.status # o.status => <<o.status, n.status>> \in StatusChanges]_vars

\* a paid order has been paid a second time and is still paid
C15_Witness ==
  \E o \in orders : o.status = "paid" /\ Cardinality(Completed(o.id)) = 2

\* the caller of r owns an order with the id that r names
OwnsOrder(r) ==
  \E o \in orders : o.id = reqs[r].arg.order_id /\ o.user_id = reqs[r].user

\* C16: a ProcessPayment for an order id that does not exist, or whose order
\* belongs to another user, ends at its load of the order: it answers 'Order
\* not found' (or the store's error), the gateway gets no charge request and no
\* row of any table changes.
C16_OrderNotFound ==
  [][\A r \in Reqs :
       ( /\ reqs[r].op = "ProcessPayment" /\ reqs[r].pc = "selectOrder"
         /\ Steps(r)
         /\ ~OwnsOrder(r) )
       => /\ reqs'[r].pc = "done"
          /\ reqs'[r].resp \in
               { [status |-> 400, error |-> e, rows |-> <<>>] :
                   e \in {"Order not found", "StoreError"} }
          /\ UNCHANGED <<tables, charges>>]_vars

\* 'Order not found' was answered for the order of another user
C16_Witness ==
  \E r \in Reqs :
    /\ Returned(r, "ProcessPayment")
    /\ reqs[r].resp = [status |-> 400, error |-> "Order not found", rows |-> <<>>]
    /\ \E o \in orders : o.id = reqs[r].arg.order_id /\ o.user_id # reqs[r].user
    /\ charges = <<>> /\ payments = {}

\* the item that r names is in a cart of r's caller
InOwnCart(r) ==
  \E ci \in CartItemsOf(reqs[r].user) : ci.id = reqs[r].arg.itemId

\* the answers of RemoveItem: success, or the error of the store
RemoveItemAnswers ==
  { [status |-> 200, error |-> "", rows |-> <<>>],
    [status |-> 400, error |-> "StoreError", rows |-> <<>>] }

\* C17: a RemoveItem whose item id names no item of the caller's cart answers
\* success and changes no table; a RemoveItem that has answered success leaves
\* the item absent, so that the same call made again is such a call: two
\* successes and the store of the first.  (Item ids are never handed out twice.)
C17_RemoveItemIdempotent ==
  /\ [][\A r \in Reqs :
         ( /\ reqs[r].op = "RemoveItem" /\ reqs[r].pc \in {"delete", "deleteWait"}
           /\ Steps(r)
           /\ ~InOwnCart(r) )
         => /\ reqs'[r].pc = "done"
            /\ reqs'[r].resp \in RemoveItemAnswers
            /\ UNCHANGED tables]_vars
  /\ [](\A r \in Reqs :
         (Returned(r, "RemoveItem") /\ reqs[r].resp.status = 200) => ~InOwnCart(r))
  /\ [][itemSeq' >= itemSeq]_vars

\* success was answered for an item id that no item ever had, the cart of the
\* caller holding an item
C17_Witness ==
  \E r \in Reqs :
    /\ Returned(r, "RemoveItem") /\ reqs[r].resp.status = 200
    /\ reqs[r].arg.itemId >= itemSeq
    /\ CartItemsOf(reqs[r].user) # {}

\* C18: a step of RemoveItem(userId, itemId) deletes no row but the cart item
\* itemId of a cart of userId; when it answers success that item is in no cart
\* of userId any more; an item of another user's cart stays where it is and the
\* call answers success.
C18_RemoveItemOwnItemOnly ==
  [][\A r \in Reqs :
       (reqs[r].op = "RemoveItem" /\ Steps(r))
       => /\ UNCHANGED <<carts, orders, orderItems, payments>>
          /\ cartItems' \subseteq cartItems
          /\ \A ci \in cartItems \ cartItems' :
               ci.id = reqs[r].arg.itemId /\ ci \in CartItemsOf(reqs[r].user)
          /\ (reqs'[r].pc = "done" /\ reqs'[r].resp.status = 200)
               => ~\E ci \in cartItems' :
                     ci.id = reqs[r].arg.itemId /\ ci \in CartItemsOf(reqs[r].user)
          /\ ( /\ reqs[r].pc = "delete"
               /\ \E ci \in cartItems \ CartItemsOf(reqs[r].user) :
                    ci.id = reqs[r].arg.itemId )
               => /\ reqs'[r].pc = "done"
                  /\ reqs'[r].resp \in RemoveItemAnswers
                  /\ UNCHANGED cartItems]_vars

\* a user who has a cart was answered success for an item of another user's
\* cart, and the item is still there
C18_Witness ==
  \E r \in Reqs :
    /\ Returned(r, "RemoveItem") /\ reqs[r].resp.status = 200
    /\ \E sc \in carts : sc.user_id = reqs[r].user
    /\ \E ci \in cartItems \ CartItemsOf(reqs[r].user) :
         ci.id = reqs[r].arg.itemId

\* C19: the step in which an AddItem succeeds adds exactly one cart item row,
\* with a new id, the product id, quantity and price of the call, in a cart of
\* the caller, and leaves every other cart item as it was -- also when the
\* cart has a line of the product already; no other step of an AddItem changes
\* the cart items.
C19_AddItemAppendsOneRow ==
  [][\A r \in Reqs :
       (reqs[r].op = "AddItem" /\ Steps(r))
       => IF reqs'[r].pc = "done" /\ reqs'[r].resp.status = 201
          THEN \E row \in cartItems' :
                 /\ cartItems' = cartItems \cup {row}
                 /\ \A ci \in cartItems : ci.id # row.id
                 /\ row.product_id = reqs[r].arg.product_id
                 /\ row.quantity = reqs[r].arg.quantity
                 /\ row.price = reqs[r].arg.price
                 /\ \E sc \in carts' :
                      sc.id = row.cart_id /\ sc.user_id = reqs[r].user
          ELSE UNCHANGED cartItems]_vars

\* an AddItem has succeeded on a cart that had a line of the same product: the
\* cart has two lines of it
C19_Witness ==
  \E r \in Reqs :
    /\ Returned(r, "AddItem") /\ reqs[r].resp.status = 201
    /\ Cardinality({ ci \in CartItemsOf(reqs[r].user) :
                       ci.product_id = reqs[r].arg.product_id }) = 2

\* C20: an AddItem whose quantity is not a positive integer or whose price is
\* negative or missing is refused before any store write, so that every cart
\* item of every reachable state has quantity >= 1 and price >= 0.
C20_CartItemsValid ==
  \A ci \in cartItems : ci.quantity >= 1 /\ ci.price >= 0

\* C21: in every reachable state each user has at most one shopping_carts row,
\* also after two AddItem calls of a user who had no cart have run together.
C21_OneCartPerUser ==
  \A u \in Users : Cardinality({ sc \in carts : sc.user_id = u }) <= 1

\* C22: no step of a GetCart changes a table or takes an id (it creates no
\* cart); a GetCart that succeeds returns each cart item of the caller's carts
\* once and nothing else: no item of another user, and the empty list when the
\* caller has no cart.
C22_GetCartReadsOwnCart ==
  [][\A r \in Reqs :
       (reqs[r].op = "GetCart" /\ Steps(r))
       => /\ UNCHANGED <<tables, seqs>>
          /\ (reqs'[r].pc = "done" /\ reqs'[r].resp.status = 200)
               => LET rows == reqs'[r].resp.rows
                      own == { sc.id : sc \in { x \in carts :
                                                  x.user_id = reqs[r].user } }
                  IN /\ SeqToSet(rows) = { ci \in cartItems : ci.cart_id \in own }
                     /\ Len(rows) = Cardinality(SeqToSet(rows))
                     /\ own = {} => rows = <<>>]_vars

\* a user without a cart got the empty list while the other user's cart holds
\* an item, and has no cart still
C22_Witness ==
  \E r \in Reqs :
    /\ Returned(r, "GetCart")
    /\ reqs[r].resp = [status |-> 200, error |-> "", rows |-> <<>>]
    /\ ~\E sc \in carts : sc.user_id = reqs[r].user
    /\ cartItems # {}

\* C23: no step of a ListOrders changes a table or takes an id; a ListOrders
\* that succeeds returns each order of the caller once and no order of another
\* user, each with exactly the order_items rows of that order, the order that
\* was created later (created_at) before the one created earlier.
C23_ListOrdersOwnNewestFirst ==
  [][\A r \in Reqs :
       (reqs[r].op = "ListOrders" /\ Steps(r))
       => /\ UNCHANGED <<tables, seqs>>
          /\ (reqs'[r].pc = "done" /\ reqs'[r].resp.status = 200)
               => LET rows == reqs'[r].resp.rows
                  IN /\ { rows[i].order : i \in DOMAIN rows }
                          = { o \in orders : o.user_id = reqs[r].user }
                     /\ \A i, j \in DOMAIN rows :
                          i # j => rows[i].order.id # rows[j].order.id
                     /\ \A i \in DOMAIN rows :
                          rows[i].items = { oi \in orderItems :
                                              oi.order_id = rows[i].order.id }
                     /\ \A i, j \in DOMAIN rows :
                          i < j => rows[i].order.created_at
                                     >= rows[j].order.created_at]_vars

\* two orders were returned of which the one created later has the lower id
\* (its transaction began later and inserted first)
C23_Witness ==
  \E r \in Reqs :
    /\ Returned(r, "ListOrders") /\ reqs[r].resp.status = 200
    /\ Len(reqs[r].resp.rows) = 2
    /\ reqs[r].resp.rows[1].order.id < reqs[r].resp.rows[2].order.id
    /\ reqs[r].resp.rows[1].order.created_at > reqs[r].resp.rows[2].order.created_at

\* C24: every charge request the gateway has received is for an order whose
\* PlaceOrder transaction has committed (the order is a row of the orders table
\* and of no open transaction), and a request that waits for the gateway's
\* answer has no transaction open and no uncommitted write.
C24_ChargeAfterCommitNoOpenTx ==
  /\ \A k \in DOMAIN charges :
       /\ \E o \in orders : o.id = charges[k].order_id
       /\ \A q \in Reqs : \A o \in reqs[q].txOrders : o.id # charges[k].order_id
  /\ \A r \in Reqs :
       reqs[r].pc = "awaitGateway"
       => /\ ~reqs[r].tx
          /\ reqs[r].txCarts = {} /\ reqs[r].txItems = {}
          /\ reqs[r].txOrders = {} /\ reqs[r].txOrderItems = {}
          /\ reqs[r].txDeleted = {}

\* a request waits for the gateway's answer while the other request has a
\* transaction open
C24_Witness ==
  \E r, q \in Reqs :
    /\ reqs[r].op = "ProcessPayment" /\ reqs[r].pc = "awaitGateway"
    /\ charges[reqs[r].charge].state = "sent"
    /\ reqs[q].tx

\* C25: a request suspended in the gateway call blocks no request of another
\* user: whenever every client that is checked out is held by a ProcessPayment
\* that waits for the gateway's answer, an AddItem, GetCart or PlaceOrder of
\* another user that asks the pool for a client gets one.
C25_GatewayWaitBlocksNoOne ==
  \A r \in Reqs :
    ( /\ reqs[r].pc = "connect"
      /\ reqs[r].op \in {"AddItem", "GetCart", "PlaceOrder"}
      /\ \E q \in Reqs : pool[q] > 0
      /\ \A q \in Reqs :
           pool[q] > 0 => /\ reqs[q].op = "ProcessPayment"
                          /\ reqs[q].pc = "awaitGateway"
                          /\ reqs[q].user # reqs[r].user )
    => ENABLED Connect(r)

\* C26: a request holds at most one client of the pool, and none before it has
\* asked for one and none once its handler is over, however it ended; when no
\* handler is running, no client is checked out.
C26_ClientReleasedOnEveryPath ==
  /\ \A r \in Reqs :
       /\ pool[r] <= 1
       /\ reqs[r].pc \in {"idle", "connect", "done"} => pool[r] = 0
  /\ (\A r \in Reqs : reqs[r].pc \in {"idle", "done"}) => CheckedOut = 0

\* a PlaceOrder on an empty cart has ended by a ROLLBACK that failed (it has
\* sent no response) and no client is checked out
C26_Witness ==
  \E r \in Reqs :
    /\ reqs[r].op = "PlaceOrder" /\ reqs[r].pc = "done"
    /\ reqs[r].error = "Cart is empty"
    /\ reqs[r].resp = NoResp
    /\ \A q \in Reqs \ {r} : reqs[q].pc = "idle"
    /\ CheckedOut = 0

\* C27: the gateway receives charge requests one at a time, each from a
\* ProcessPayment that has loaded its order and has sent no charge request yet;
\* no other step sends one, whatever the gateway answers.
C27_OneChargePerInvocation ==
  [][/\ Len(charges') <= Len(charges) + 1
     /\ Len(charges') >= Len(charges)
     /\ Len(charges') = Len(charges) + 1
          => \E r \in Reqs :
               /\ reqs[r].op = "ProcessPayment" /\ reqs[r].pc = "selectOrder"
               /\ reqs[r].charge = 0
               /\ reqs'[r].pc = "awaitGateway"
               /\ reqs'[r].charge = Len(charges')
     /\ \A r \in Reqs :
          (reqs[r].op = "ProcessPayment" /\ reqs[r].charge # 0
           /\ reqs'[r].op = "ProcessPayment" /\ reqs'[r].pc # "idle")
          => reqs'[r].charge = reqs[r].charge]_vars

\* a ProcessPayment has ended by a timeout of the gateway and the gateway has
\* received one charge request
C27_Witness ==
  \E r \in Reqs :
    /\ Returned(r, "ProcessPayment") /\ reqs[r].error = "gateway_timeout"
    /\ Len(charges) = 1 /\ reqs[r].charge = 1
    /\ charges[1].state = "timeout"

\* C28: every charge request carries the total_amount of its order in minor
\* units (cents), so all charge requests for one order carry the same amount,
\* and every payments row has the total_amount of its order as its amount.
C28_AmountsAreOrderTotal ==
  /\ \A k \in DOMAIN charges :
       \E o \in orders : /\ o.id = charges[k].order_id
                         /\ charges[k].amount = o.total_amount
  /\ \A k, j \in DOMAIN charges :
       charges[k].order_id = charges[j].order_id
       => charges[k].amount = charges[j].amount
  /\ \A p \in payments :
       \E o \in orders : o.id = p.order_id /\ p.amount = o.total_amount

\* an order of 39.98 was charged twice, 3998 cents each time, and has a payment
\* row of 39.98
C28_Witness ==
  /\ Len(charges) = 2
  /\ charges[1].order_id = charges[2].order_id
  /\ charges[1].amount = 3998
  /\ \E p \in payments : p.order_id = charges[1].order_id /\ p.amount = 3998

\* what the store holds of user u: the carts, the items of those carts, the
\* orders, and the order items and payments of those orders
DataOf(u) ==
  LET cs == { sc \in carts : sc.user_id = u }
      os == { o \in orders : o.user_id = u }
  IN << cs,
        { ci \in cartItems : \E sc \in cs : ci.cart_id = sc.id },
        os,
        { oi \in orderItems : \E o \in os : oi.order_id = o.id },
        { p \in payments : \E o \in os : p.order_id = o.id } >>

\* the user on whose behalf request r takes this step
Caller(r) == IF reqs[r].pc = "idle" THEN reqs'[r].user ELSE reqs[r].user

\* C29: a step of an operation invoked by user A, whatever its arguments,
\* changes no cart, cart item, order, order item or payment of another user B.
C29_UsersAreIndependent ==
  [][\A r \in Reqs :
       Steps(r) => \A u \in Users \ {Caller(r)} : DataOf(u)' = DataOf(u)]_vars

\* a user has asked to pay the order of another user, after an AddItem of their
\* own has committed, and was answered that there is no such order
C29_Witness ==
  \E r \in Reqs :
    /\ Returned(r, "ProcessPayment") /\ reqs[r].error = "Order not found"
    /\ \E o \in orders : o.id = reqs[r].arg.order_id /\ o.user_id # reqs[r].user
    /\ CartItemsOf(reqs[r].user) # {}
    /\ payments = {}

\* C30: a call with a missing or invalid credential is answered 401 ("Please
\* authenticate.") in one step from idle, and that step changes no row, takes no
\* id and no client of the pool and sends no charge request; the handler does
\* not run: every request that is past its first step or holds a client acts
\* for a verified user.
C30_NotAuthenticatedRunsNothing ==
  [][\A r \in Reqs :
       /\ ( /\ Steps(r) /\ reqs[r].pc = "idle"
            /\ "credential" \in DOMAIN reqs'[r].arg )
          => /\ reqs'[r].pc = "done"
             /\ reqs'[r].resp = [status |-> 401, error |-> "Please authenticate.",
                                  rows |-> <<>>]
             /\ UNCHANGED <<tables, seqs, pool, charges>>
       /\ reqs'[r].resp.status = 401
          => "credential" \in DOMAIN reqs'[r].arg /\ reqs'[r].pc = "done"
       /\ (reqs'[r].pc \notin {"idle", "done"} \/ pool'[r] > 0)
          => reqs'[r].user \in Users]_vars

\* a ProcessPayment with an invalid credential for an order that exists was
\* rejected: the gateway has received no charge request, no client is checked out
C30_Witness ==
  \E r \in Reqs :
    /\ reqs[r].op = "ProcessPayment" /\ reqs[r].pc = "done"
    /\ reqs[r].resp.status = 401
    /\ reqs[r].arg.credential = "invalid"
    /\ orders # {} /\ charges = <<>> /\ CheckedOut = 0

\* C31: what a PlaceOrder that succeeds sends to its caller is the created
\* order with the order items generated for it, and the total it carries is the
\* sum of price * quantity over those items.
C31_ResultCarriesOrderItems ==
  \A r \in Reqs :
    (Returned(r, "PlaceOrder") /\ reqs[r].resp.status = 201)
    => LET res == reqs[r].resp.rows[1]
       IN /\ res.id = reqs[r].order.id
          /\ "items" \in DOMAIN res
          /\ res.items = { oi \in orderItems : oi.order_id = res.id }
          /\ res.total_amount = SumRows(res.items)

\* C32: the step in which the gateway call of a ProcessPayment runs out of time
\* ends the handler: the caller is told an outcome that is not the one of a
\* failed payment, no order changes (the order stays pending) and the request
\* holds no client of the pool any more.
C32_TimeoutEndsIndeterminate ==
  [][\A r \in Reqs :
       ( /\ reqs[r].op = "ProcessPayment" /\ reqs[r].pc = "awaitGateway"
         /\ charges'[reqs[r].charge].state = "timeout" )
       => /\ reqs'[r].pc = "done"
          /\ pool'[r] = 0
          /\ UNCHANGED <<orders, payments>>
          /\ ~PaymentFailed(reqs'[r].resp)]_vars

\* C33: no step of an AddItem other than its successful COMMIT changes a
\* committed table, and an AddItem that goes to its error handler keeps none of
\* its uncommitted rows: when the cart item insert fails after the call has
\* inserted the user's cart, the store has neither the cart nor the item.
C33_AddItemAllOrNothing ==
  [][\A r \in Reqs :
       ( /\ reqs[r].op = "AddItem"
         /\ Steps(r)
         /\ ~(reqs'[r].pc = "done" /\ reqs'[r].resp.status = 201) )
       => /\ UNCHANGED tables
          /\ reqs'[r].pc \in {"rollback", "done", "idle"}
               => reqs'[r].txCarts = {} /\ reqs'[r].txItems = {}]_vars

\* an AddItem whose body has no quantity has failed (at the cart item insert)
\* for a user who had no cart: the call had inserted a cart, and no cart of the
\* user and no cart item is in the store
C33_Witness ==
  \E r \in Reqs :
    /\ Returned(r, "AddItem") /\ reqs[r].resp.status = 400
    /\ "quantity" \notin DOMAIN reqs[r].arg
    /\ \A q \in Reqs \ {r} : reqs[q].pc = "idle"
    /\ cartSeq > 1
    /\ ~\E sc \in carts : sc.user_id = reqs[r].user
    /\ cartItems = {}

\* the charge requests for order `id` that the gateway has accepted
Accepted(id) ==
  { k \in DOMAIN charges : charges[k].order_id = id /\ charges[k].state = "succeeded" }

\* C34: the gateway accepts at most one charge for an order, and no charge
\* request is sent for an order once its status is paid.
C34_OrderChargedAtMostOnce ==
  /\ \A o \in orders : Cardinality(Accepted(o.id)) <= 1
  /\ \A r \in Reqs :
       (reqs[r].op = "ProcessPayment" /\ reqs[r].charge # 0)
       => reqs[r].order.status # "paid"

\* C35: in every state, those in the middle of a ProcessPayment and those a
\* store failure leaves behind included, an order whose status is paid has a
\* payments row with status completed.
C35_PaidImpliesCompletedPayment ==
  \A o \in orders : o.status = "paid" => Completed(o.id) # {}

\* an order is paid, and a later ProcessPayment on it was stopped by a store
\* failure after the gateway had accepted its charge
C35_Witness ==
  \E r \in Reqs :
    /\ Returned(r, "ProcessPayment") /\ reqs[r].error = "StoreError"
    /\ reqs[r].charge # 0 /\ charges[reqs[r].charge].state = "succeeded"
    /\ reqs[r].order.status = "paid"
    /\ \E o \in orders : o.id = reqs[r].order.id /\ o.status = "paid"

\* C36: a handler that is over has sent a response to its caller, whichever way
\* it ended (a failed pool.connect() and a failed ROLLBACK included).
C36_EveryCallIsAnswered ==
  \A r \in Reqs : reqs[r].pc = "done" => reqs[r].resp # NoResp
====
